---- MODULE Spec2Model ----
(***************************************************************************)
(* Model of the position-ingestion and proximity-alerting pipeline of      *)
(* src/app.py: api_track, safe_put_item, haversine_km, format_ts,          *)
(* sns_publish, simulate and generate_test_data, over the DynamoDB table   *)
(* and the SNS topic.                                                      *)
(*                                                                         *)
(* Number representations                                                  *)
(*   - a Python float / Decimal is a record [cls, ty, v]: cls is "fin",    *)
(*     "nan" or "inf"; ty is the Python type ("float", "Decimal");         *)
(*     v is the value in the unit of the field: 1e-4 degree for            *)
(*     coordinates, metre for distances and radii, km/h for speeds;        *)
(*   - an epoch second count is a record [day, sec] standing for           *)
(*     day * 86400 + sec with 0 <= sec < 86400 (Python integers are        *)
(*     unbounded; millisecond-scale values do not fit a 32-bit integer).   *)
(***************************************************************************)
EXTENDS Integers, Sequences, FiniteSets, TLC

(***************************************************************************)
(* Bounds of the model.                                                    *)
(***************************************************************************)
\* number of handler invocations in one behaviour (they may overlap)
NumCalls == 2
\* number of one-second ticks of the clock in one behaviour
MaxTicks == 1
\* seeds of the random generator are 0..MaxSeed
MaxSeed == 1

Calls == 1..NumCalls

(***************************************************************************)
(* Strings are sequences of one-character strings, so that str.upper and   *)
(* str.strip are computed.                                                 *)
(***************************************************************************)
upper_char(c) ==
    CASE c = "a" -> "A"
      [] c = "g" -> "G"
      [] c = "m" -> "M"
      [] c = "z" -> "Z"
      [] c = "o" -> "O"
      [] c = "n" -> "N"
      [] c = "e" -> "E"
      [] c = "i" -> "I"
      [] c = "d" -> "D"
      [] c = "l" -> "L"
      [] OTHER -> c

\* faulty variant: no case conversion
upper_identity(s) == s

upper(s) == [i \in 1..Len(s) |-> upper_char(s[i])]

RECURSIVE lstrip(_)
lstrip(s) == IF s # <<>> /\ Head(s) = " " THEN lstrip(Tail(s)) ELSE s

RECURSIVE rstrip(_)
rstrip(s) == IF s # <<>> /\ s[Len(s)] = " " THEN rstrip(SubSeq(s, 1, Len(s) - 1)) ELSE s

strip(s) == rstrip(lstrip(s))

(***************************************************************************)
(* Floats.                                                                 *)
(***************************************************************************)
Fin(v) == [cls |-> "fin", ty |-> "float", v |-> v]
NaN == [cls |-> "nan", ty |-> "float", v |-> 0]
Inf == [cls |-> "inf", ty |-> "float", v |-> 0]

\* a <= b on floats: every comparison with NaN is false, +inf is the largest
FLe(a, b) ==
    /\ a.cls # "nan"
    /\ b.cls # "nan"
    /\ \/ b.cls = "inf"
       \/ a.cls = "fin" /\ b.cls = "fin" /\ a.v <= b.v

FLt(a, b) ==
    /\ a.cls # "nan"
    /\ b.cls # "nan"
    /\ \/ a.cls = "fin" /\ b.cls = "inf"
       \/ a.cls = "fin" /\ b.cls = "fin" /\ a.v < b.v

(***************************************************************************)
(* Epoch seconds as [day, sec].                                            *)
(***************************************************************************)
Epoch(day, sec) == [day |-> day, sec |-> sec]

\* day * 86400 + s for any integer s, brought back to 0 <= sec < 86400
EpochNorm(day, s) == [day |-> day + (s \div 86400), sec |-> s % 86400]

EpochPlus(e, s) == EpochNorm(e.day, e.sec + s)

(***************************************************************************)
(* The route catalog (src/app.py:29-48), coordinates in 1e-4 degree.       *)
(***************************************************************************)
Stop(n, la, lo) == [name |-> n, lat |-> la, lon |-> lo]

Id10A == <<"1", "0", "A">>
Id100M == <<"1", "0", "0", "M">>
Id65G == <<"6", "5", "G">>

buses ==
    (Id10A :> [route |-> "Secunderabad -> Mehdipatnam",
               stops |-> << Stop("Secunderabad", 174399, 784983),
                            Stop("Begumpet", 174444, 784611),
                            Stop("Ameerpet", 174375, 784483),
                            Stop("Punjagutta", 174294, 784506),
                            Stop("Mehdipatnam", 173956, 784403) >>])
    @@
    (Id100M :> [route |-> "JBS -> MGBS",
                stops |-> << Stop("JBS", 174565, 784998),
                             Stop("Paradise", 174432, 784841),
                             Stop("Charminar", 173616, 784747),
                             Stop("Moazzam Jahi Market", 173832, 784735),
                             Stop("MGBS", 173840, 784804) >>])
    @@
    (Id65G :> [route |-> "Miyapur -> Shamshabad",
               stops |-> << Stop("Miyapur", 174947, 783569),
                            Stop("Lingampally", 174948, 783246),
                            Stop("Gachibowli", 174401, 783489),
                            Stop("Rajiv Gandhi Airport", 172402, 784294),
                            Stop("Shamshabad", 172289, 784297) >>])

\* the module-level dict buses (src/app.py:29-48) as the handlers read it
VARIABLE catalog


(***************************************************************************)
(* haversine_km.  The trigonometry is evaluated in fixed point over the    *)
(* area of the catalog (latitude about 17.4 degrees, distances of a few    *)
(* tens of kilometres): sin x = x, atan2(sqrt a, sqrt(1-a)) = sqrt a and   *)
(* cos(phi1)cos(phi2) = 0.91, which gives                                  *)
(*     2 R sqrt(a) = R * sqrt(dphi^2 + 0.91 dlambda^2)                     *)
(* with R * (1e-4 degree in radians) = 11.12 m.  The result is a whole     *)
(* number of metres (within 1% of the double-precision value).             *)
(***************************************************************************)
RECURSIVE isqrt_between(_, _, _)
isqrt_between(n, lo, hi) ==
    IF lo >= hi THEN lo
    ELSE LET mid == (lo + hi + 1) \div 2
         IN  IF mid * mid <= n THEN isqrt_between(n, mid, hi)
                               ELSE isqrt_between(n, lo, mid - 1)

isqrt(n) == isqrt_between(n, 0, 46340)

\* faulty variant: the signed difference of the latitudes only
haversine_km_signed(lat1, lon1, lat2, lon2) ==
    IF lat1.cls = "inf" \/ lon1.cls = "inf"
    THEN [raised |-> TRUE, d |-> NaN]
    ELSE IF lat1.cls = "nan" \/ lon1.cls = "nan"
    THEN [raised |-> FALSE, d |-> NaN]
    ELSE [raised |-> FALSE, d |-> Fin(((lat2 - lat1.v) * 1112) \div 100)]

\* the stop (lat2, lon2) is catalog data and always finite
haversine_km(lat1, lon1, lat2, lon2) ==
    IF lat1.cls = "inf" \/ lon1.cls = "inf"
    THEN [raised |-> TRUE, d |-> NaN]               \* math.sin(inf): ValueError
    ELSE IF lat1.cls = "nan" \/ lon1.cls = "nan"
    THEN [raised |-> FALSE, d |-> NaN]
    ELSE LET dphi == lat2 - lat1.v
             dlambda == lon2 - lon1.v
             a == 100 * dphi * dphi + 91 * dlambda * dlambda
         IN  [raised |-> FALSE, d |-> Fin((isqrt(a) * 1112) \div 1000)]

(***************************************************************************)
(* min(dists, key=lambda x: x[1]) (src/app.py:141): the first element      *)
(* whose key no later element is strictly below.                           *)
(***************************************************************************)
RECURSIVE min_scan(_, _, _)
min_scan(dists, i, best) ==
    IF i > Len(dists) THEN best
    ELSE min_scan(dists, i + 1, IF FLt(dists[i].d, dists[best].d) THEN i ELSE best)

RECURSIVE min_scan_last(_, _, _)
min_scan_last(dists, i, best) ==
    IF i > Len(dists) THEN best
    ELSE min_scan_last(dists, i + 1, IF FLe(dists[i].d, dists[best].d) THEN i ELSE best)

\* faulty variant: on a tie the last minimal element wins
min_index_last(dists) == min_scan_last(dists, 2, 1)

\* index in dists of the element min() returns
min_index(dists) == min_scan(dists, 2, 1)

(***************************************************************************)
(* Timestamps as they arrive in the JSON body (or in an item).             *)
(*   t = "absent"   the key is missing                                     *)
(*   t = "null"     None                                                   *)
(*   t = "empty"    the empty string                                       *)
(*   t = "num"      a number: n + frac/10 seconds (cls "fin"), NaN or inf  *)
(*   t = "iso"      a string of the shape YYYY-MM-DDThh:mm:ss[.f][zone]    *)
(*   t = "text"     any other string                                       *)
(*   t = "datetime" a datetime object (only reachable inside the process)  *)
(***************************************************************************)
NoIso == [y |-> 0, mo |-> 0, d |-> 0, h |-> 0, mi |-> 0, s |-> 0, f |-> 0, zone |-> "naive"]
Iso(y, mo, d, h, mi, s, f, zone) ==
    [y |-> y, mo |-> mo, d |-> d, h |-> h, mi |-> mi, s |-> s, f |-> f, zone |-> zone]

TsVal(t, cls, n, frac, iso) == [t |-> t, cls |-> cls, n |-> n, frac |-> frac, iso |-> iso]
TsAbsent == TsVal("absent", "fin", Epoch(0, 0), 0, NoIso)
TsNull == TsVal("null", "fin", Epoch(0, 0), 0, NoIso)
TsEmpty == TsVal("empty", "fin", Epoch(0, 0), 0, NoIso)
TsText == TsVal("text", "fin", Epoch(0, 0), 0, NoIso)
TsNum(n, frac) == TsVal("num", "fin", n, frac, NoIso)
TsNaN == TsVal("num", "nan", Epoch(0, 0), 0, NoIso)
TsIso(iso) == TsVal("iso", "fin", Epoch(0, 0), 0, iso)
TsDatetime(iso) == TsVal("datetime", "fin", Epoch(0, 0), 0, iso)

(***************************************************************************)
(* datetime arithmetic.                                                    *)
(***************************************************************************)
is_leap(y) == (y % 4 = 0 /\ y % 100 # 0) \/ y % 400 = 0

days_in_month(y, mo) ==
    CASE mo \in {4, 6, 9, 11} -> 30
      [] mo = 2 -> IF is_leap(y) THEN 29 ELSE 28
      [] OTHER -> 31

\* days from 1970-01-01 to the proleptic Gregorian date y-mo-d
days_from_civil(y, mo, d) ==
    LET yy == IF mo <= 2 THEN y - 1 ELSE y
        era == yy \div 400
        yoe == yy - era * 400
        mp == IF mo > 2 THEN mo - 3 ELSE mo + 9
        doy == (153 * mp + 2) \div 5 + d - 1
        doe == yoe * 365 + yoe \div 4 - yoe \div 100 + doy
    IN  era * 146097 + doe - 719468

\* utcoffset in minutes of a zone designator; "Z" has been replaced by "+00:00"
zone_offset(zone) ==
    CASE zone = "+00:00" -> 0
      [] zone = "+05:30" -> 330
      [] OTHER -> 0

\* str.replace("Z", "+00:00") on the zone designator of the string
replace_Z(iso) == [iso EXCEPT !.zone = IF @ = "Z" THEN "+00:00" ELSE @]

\* datetime.fromisoformat accepts the string
iso_valid(iso) ==
    /\ iso.y \in 1..9999
    /\ iso.mo \in 1..12
    /\ iso.d \in 1..days_in_month(iso.y, iso.mo)
    /\ iso.h \in 0..23
    /\ iso.mi \in 0..59
    /\ iso.s \in 0..59

\* int(dt.timestamp()): an aware datetime is taken at its own offset, a naive
\* one in the local zone of the process (tz minutes east of UTC); the fraction
\* is dropped towards zero
datetime_epoch(iso, tz) ==
    LET off == IF iso.zone = "naive" THEN tz ELSE zone_offset(iso.zone)
        whole == EpochNorm(days_from_civil(iso.y, iso.mo, iso.d),
                           iso.h * 3600 + iso.mi * 60 + iso.s - off * 60)
    IN  IF whole.day < 0 /\ iso.f > 0 THEN EpochPlus(whole, 1) ELSE whole

\* naive datetimes are read as UTC
datetime_epoch_utc(iso, tz) ==
    LET whole == EpochNorm(days_from_civil(iso.y, iso.mo, iso.d),
                           iso.h * 3600 + iso.mi * 60 + iso.s - zone_offset(iso.zone) * 60)
    IN  IF whole.day < 0 /\ iso.f > 0 THEN EpochPlus(whole, 1) ELSE whole

\* int(x) for a finite number n + frac/10: truncation towards zero
int_trunc(n, frac) == IF n.day < 0 /\ frac > 0 THEN EpochPlus(n, 1) ELSE n

\* the civil date of a day count (inverse of days_from_civil)
civil_from_days(z0) ==
    LET z == z0 + 719468
        era == z \div 146097
        doe == z - era * 146097
        yoe == (doe - doe \div 1460 + doe \div 36524 - doe \div 146096) \div 365
        doy == doe - (365 * yoe + yoe \div 4 - yoe \div 100)
        mp == (5 * doy + 2) \div 153
        d == doy - (153 * mp + 2) \div 5 + 1
        mo == IF mp < 10 THEN mp + 3 ELSE mp - 9
        y == yoe + era * 400 + (IF mo <= 2 THEN 1 ELSE 0)
    IN  [y |-> y, mo |-> mo, d |-> d]

\* format_ts (src/app.py:105): datetime.fromtimestamp raises outside the years
\* 1..9999, that is outside the days -719162..2932896
format_ts(ts) ==
    IF ts.day < -719162 \/ ts.day > 2932896
    THEN [raised |-> TRUE, text |-> Iso(0, 0, 0, 0, 0, 0, 0, "UTC")]
    ELSE LET c == civil_from_days(ts.day)
         IN  [raised |-> FALSE,
              text |-> Iso(c.y, c.mo, c.d, ts.sec \div 3600, (ts.sec % 3600) \div 60,
                           ts.sec % 60, 0, "UTC")]

(***************************************************************************)
(* Values of the JSON body.  A numeric field is [t, x]: t = "absent",      *)
(* "null", "num" (a JSON number, x its value) or "text" (a string that     *)
(* spells no number).  A string field is [t, s].                           *)
(***************************************************************************)
NumAbsent == [t |-> "absent", x |-> Fin(0)]
NumNull == [t |-> "null", x |-> Fin(0)]
NumText == [t |-> "text", x |-> Fin(0)]
Num(x) == [t |-> "num", x |-> x]

StrAbsent == [t |-> "absent", s |-> <<>>]
StrNull == [t |-> "null", s |-> <<>>]
Str(s) == [t |-> "str", s |-> s]

\* float(v): a number converts, None raises TypeError, other text ValueError
float(v) ==
    IF v.t = "num" THEN [raised |-> FALSE, x |-> [v.x EXCEPT !.ty = "float"]]
    ELSE [raised |-> TRUE, x |-> NaN]

\* str(data.get(key, default)) of a string field
str_get(v, default) ==
    CASE v.t = "absent" -> default
      [] v.t = "null" -> <<"N", "o", "n", "e">>
      [] OTHER -> v.s

\* random.random() of a generator seeded with seed, k-th draw, in eighths
random(seed, k) == (seed * 5 + k * 3) % 8

\* random.uniform(a, b) = a + (b - a) * random()
uniform(seed, k, a, b) == a + ((b - a) * random(seed, k)) \div 8

\* random.choice(seq)
choice(seed, k, seq) == seq[1 + (random(seed, k) * Len(seq)) \div 8]

(***************************************************************************)
(* Items of the table.  NoItem stands for "no item".                       *)
(***************************************************************************)
Item(b, ts, la, lo, sp, st, r, ns, d) ==
    [BusID |-> b, TimeStamp |-> ts, Latitude |-> la, Longitude |-> lo, SpeedKmph |-> sp,
     Status |-> st, Route |-> r, NextStop |-> ns, DistanceToStopKm |-> d]

NoItem == Item(<<>>, Epoch(0, 0), NaN, NaN, NaN, <<>>, "", "", NaN)

\* decimalize (src/app.py:68-72): a float becomes the Decimal of its repr
decimalize(x) == IF x.ty = "float" THEN [x EXCEPT !.ty = "Decimal"] ELSE x


\* the TimeStamp conversions of safe_put_item (src/app.py:77-83): t is the
\* clock, z the local zone
timestamp_of(ts, t, z) ==
    LET ts0 == IF ts.t \in {"absent", "null", "empty"} THEN TsNum(t, 0) ELSE ts
    IN  CASE ts0.t = "datetime" ->
               [raised |-> FALSE, ts |-> datetime_epoch(ts0.iso, z)]
          [] ts0.t = "iso" ->
               IF iso_valid(ts0.iso)
               THEN [raised |-> FALSE, ts |-> datetime_epoch(replace_Z(ts0.iso), z)]
               ELSE [raised |-> TRUE, ts |-> Epoch(0, 0)]
          [] ts0.t = "text" -> [raised |-> TRUE, ts |-> Epoch(0, 0)]
          [] OTHER ->
               IF ts0.cls = "fin"
               THEN [raised |-> FALSE, ts |-> int_trunc(ts0.n, ts0.frac)]
               ELSE [raised |-> TRUE, ts |-> Epoch(0, 0)]

\* safe_put_item up to the table write (src/app.py:76-86).  raw is the item as
\* passed in, its TimeStamp still a timestamp value.
safe_put_item(raw, t, z) ==
    LET conv == timestamp_of(raw.TimeStamp, t, z)
    IN  IF strip(raw.BusID) = <<>>
        THEN [raised |-> TRUE, error |-> "Missing BusID", item |-> NoItem]
        ELSE IF conv.raised
        THEN [raised |-> TRUE, error |-> "timestamp", item |-> NoItem]
        ELSE [raised |-> FALSE, error |-> "",
              item |-> Item(upper(raw.BusID), conv.ts, decimalize(raw.Latitude),
                            decimalize(raw.Longitude), decimalize(raw.SpeedKmph),
                            raw.Status, raw.Route, raw.NextStop,
                            decimalize(raw.DistanceToStopKm))]

\* the number attributes of an item that the table client can serialise:
\* Decimals that are neither NaN nor infinite
serialisable(item) ==
    \A x \in {item.Latitude, item.Longitude, item.SpeedKmph, item.DistanceToStopKm} :
        x.ty = "Decimal" /\ x.cls = "fin"

\* faulty variant: a write to an existing key updates the position attributes
\* only and keeps the other attributes of the item that is there
put_item_merge(tab, item) ==
    LET same == {r \in tab : r.BusID = item.BusID /\ r.TimeStamp = item.TimeStamp}
    IN  IF same = {} THEN tab \cup {item}
        ELSE (tab \ same)
               \cup {[r EXCEPT !.Latitude = item.Latitude, !.Longitude = item.Longitude] :
                        r \in same}

\* faulty variant: the write appends, it does not replace
put_item_append(tab, item) == tab \cup {item}

\* table.put_item (src/app.py:87).  The table is queried by BusID in TimeStamp
\* order (src/app.py:121) and safe_put_item requires both attributes: its
\* primary key is (BusID, TimeStamp), and a write replaces the item that has
\* the same key.
put_item(tab, item) ==
    {r \in tab : ~(r.BusID = item.BusID /\ r.TimeStamp = item.TimeStamp)} \cup {item}

(***************************************************************************)
(* Responses of api_track: jsonify({...}), status.                         *)
(***************************************************************************)
Resp(ok, code, error, stored) ==
    [ok |-> ok, code |-> code, error |-> error, stored |-> stored]

NoResp == Resp(FALSE, 0, "", NoItem)

Report(b, la, lo, sp, st, ts, ar) ==
    [bus_id |-> b, lat |-> la, lon |-> lo, speed_kmph |-> sp, status |-> st,
     timestamp |-> ts, alert_radius_km |-> ar]

ACTIVE == <<"A", "C", "T", "I", "V", "E">>

\* the bus_id api_track looks up (src/app.py:134)
bus_id_of(data) == strip(upper(str_get(data.bus_id, <<>>)))

\* dists (src/app.py:140) for a known bus
dists_of(bus_id, lat, lon) ==
    LET stops == catalog[bus_id].stops
    IN  [i \in 1..Len(stops) |->
            [name |-> stops[i].name,
             raised |-> haversine_km(lat, lon, stops[i].lat, stops[i].lon).raised,
             d |-> haversine_km(lat, lon, stops[i].lat, stops[i].lon).d]]

\* random.uniform(10, 35), drawn whether or not speed_kmph is present
speed_of(data, seed) ==
    IF data.speed_kmph.t = "absent"
    THEN [raised |-> FALSE, x |-> Fin(uniform(seed, 0, 10, 35))]
    ELSE float(data.speed_kmph)

Failure(code, error) == [failed |-> TRUE, code |-> code, error |-> error]

\* faulty variant: the catalog lookup is not guarded, buses[bus_id] raises
\* KeyError for an unknown bus and except Exception answers 500
api_track_check_unguarded(data, seed) ==
    IF data.lat.t = "absent" \/ float(data.lat).raised THEN Failure(500, "lat")
    ELSE IF data.lon.t = "absent" \/ float(data.lon).raised THEN Failure(500, "lon")
    ELSE IF speed_of(data, seed).raised THEN Failure(500, "speed_kmph")
    ELSE IF bus_id_of(data) \notin DOMAIN catalog THEN Failure(500, "KeyError")
    ELSE [failed |-> FALSE, code |-> 0, error |-> ""]

\* faulty variant: the bus is looked up before lat, lon and speed_kmph are
\* converted
api_track_check_bus_first(data, seed) ==
    IF bus_id_of(data) \notin DOMAIN catalog THEN Failure(400, "Unknown bus_id")
    ELSE IF data.lat.t = "absent" \/ float(data.lat).raised THEN Failure(500, "lat")
    ELSE IF data.lon.t = "absent" \/ float(data.lon).raised THEN Failure(500, "lon")
    ELSE IF speed_of(data, seed).raised THEN Failure(500, "speed_kmph")
    ELSE [failed |-> FALSE, code |-> 0, error |-> ""]

\* api_track, src/app.py:134-138: the conversions of lat, lon and speed_kmph
\* (an exception is answered 500 by except Exception), then the lookup of the
\* bus (400)
api_track_check(data, seed) ==
    IF data.lat.t = "absent" \/ float(data.lat).raised THEN Failure(500, "lat")
    ELSE IF data.lon.t = "absent" \/ float(data.lon).raised THEN Failure(500, "lon")
    ELSE IF speed_of(data, seed).raised THEN Failure(500, "speed_kmph")
    ELSE IF bus_id_of(data) \notin DOMAIN catalog THEN Failure(400, "Unknown bus_id")
    ELSE [failed |-> FALSE, code |-> 0, error |-> ""]

\* api_track from the request to the return of safe_put_item's conversions
\* (src/app.py:133-144, 76-86).  Either the call has failed (failed = TRUE,
\* resp its response) or item is what table.put_item is about to receive.
api_track_prepare(data, t, z, seed) ==
    LET chk == api_track_check(data, seed)
        Fail(code, error) ==
            [failed |-> TRUE, resp |-> Resp(FALSE, code, error, NoItem),
             item |-> NoItem, next_stop |-> "", dist_km |-> NaN]
    IN  IF chk.failed THEN Fail(chk.code, chk.error)
        ELSE LET bus_id == bus_id_of(data)
                 lat == float(data.lat).x
                 lon == float(data.lon).x
                 status == upper(str_get(data.status, ACTIVE))
                 ts == IF data.timestamp.t = "absent" THEN TsNum(t, 0) ELSE data.timestamp
                 dists == dists_of(bus_id, lat, lon)
                 m == dists[min_index(dists)]
                 raw == Item(bus_id, ts, lat, lon, speed_of(data, seed).x, status,
                             catalog[bus_id].route, m.name, m.d)
                 put == safe_put_item(raw, t, z)
             IN  IF \E i \in 1..Len(dists) : dists[i].raised THEN Fail(500, "haversine_km")
                 ELSE IF put.raised THEN Fail(500, put.error)
                 ELSE [failed |-> FALSE, resp |-> NoResp, item |-> put.item,
                       next_stop |-> m.name, dist_km |-> m.d]

(***************************************************************************)
(* The alert (src/app.py:145-148).                                         *)
(***************************************************************************)
\* f"{dist_km:.2f}": hundredths of a kilometre
format_2f(d) == (d.v + 5) \div 10

Message(bus_id, next_stop, dist_km, time) ==
    [subject |-> [bus |-> bus_id, stop |-> next_stop],
     message |-> [bus |-> bus_id, stop |-> next_stop, dist |-> format_2f(dist_km),
                  time |-> time]]

\* float(data.get("alert_radius_km", 0.5)), in metres
alert_radius_of(data) ==
    IF data.alert_radius_km.t = "absent" THEN [raised |-> FALSE, x |-> Fin(500)]
    ELSE float(data.alert_radius_km)

\* faulty variant: the alert fires strictly inside the radius only
within_radius_strict(dist_km, alert_radius_km) == FLt(dist_km, alert_radius_km)

\* dist_km <= alert_radius_km (src/app.py:146)
within_radius(dist_km, alert_radius_km) == FLe(dist_km, alert_radius_km)

(***************************************************************************)
(* Requests.                                                               *)
(***************************************************************************)
BaseReport ==
    Report(Str(<<"1", "0", "a">>), Num(Fin(174376)), Num(Fin(784483)), Num(Fin(20)),
           StrAbsent, TsAbsent, Num(Fin(500)))

BusAlts ==
    { Str(Id100M), Str(<<" ", "6", "5", "g", " ">>), Str(<<"9", "9", "Z">>),
      Str(<<" ">>), StrAbsent, StrNull }

\* (lat, lon): on a stop, equidistant from Ameerpet and Punjagutta, malformed
LocAlts ==
    { <<Num(Fin(174375)), Num(Fin(784483))>>,
      <<Num(Fin(174323)), Num(Fin(784450))>>,
      <<Num(NaN), Num(Fin(784483))>>,
      <<Num(Inf), Num(Fin(784483))>>,
      <<NumText, Num(Fin(784483))>>,
      <<NumAbsent, Num(Fin(784483))>>,
      <<Num(Fin(174376)), NumText>>,
      <<Num(Fin(174376)), NumNull>> }

SpeedAlts == { NumAbsent, NumText, Num(NaN) }

StatusAlts == { Str(<<"i", "d", "l", "e">>) }

Iso2025(zone) == Iso(2025, 1, 1, 0, 0, 0, 0, zone)

\* 10, -5, 1.9, -1.9 and 1735689600000 seconds; ISO strings; None, "", "abc"
TsAlts ==
    { TsNull, TsEmpty, TsText, TsNaN,
      TsNum(Epoch(0, 10), 0), TsNum(Epoch(-1, 86395), 0), TsNum(Epoch(0, 1), 9),
      TsNum(Epoch(-1, 86398), 1), TsNum(Epoch(20089000, 0), 0),
      TsIso(Iso2025("Z")), TsIso(Iso2025("naive")), TsIso(Iso2025("+05:30")),
      TsIso(Iso(1969, 12, 31, 23, 59, 59, 5, "Z")),
      TsIso(Iso(2025, 2, 30, 0, 0, 0, 0, "Z")) }

RadiusAlts ==
    { NumAbsent, NumNull, NumText, Num(NaN), Num(Inf),
      Num(Fin(0)), Num(Fin(11)), Num(Fin(10)), Num(Fin(1000)) }

WithBus(r, b) == [r EXCEPT !.bus_id = b]
WithLoc(r, l) == [r EXCEPT !.lat = l[1], !.lon = l[2]]
WithSpeed(r, x) == [r EXCEPT !.speed_kmph = x]
WithStatus(r, x) == [r EXCEPT !.status = x]
WithTs(r, x) == [r EXCEPT !.timestamp = x]
WithRadius(r, x) == [r EXCEPT !.alert_radius_km = x]

\* the base report with one field changed
OneOff ==
    {BaseReport}
    \cup {WithBus(BaseReport, b) : b \in BusAlts}
    \cup {WithLoc(BaseReport, l) : l \in LocAlts}
    \cup {WithSpeed(BaseReport, x) : x \in SpeedAlts}
    \cup {WithStatus(BaseReport, x) : x \in StatusAlts}
    \cup {WithTs(BaseReport, x) : x \in TsAlts}
    \cup {WithRadius(BaseReport, x) : x \in RadiusAlts}

\* reports with several fields changed: an unknown bus with another malformed
\* field, malformed coordinate and timestamp, locations against radii
TwoOff ==
    {WithBus(r, Str(<<"9", "9", "Z">>)) :
        r \in {WithLoc(BaseReport, <<NumText, Num(Fin(784483))>>),
               WithLoc(BaseReport, <<Num(Fin(174376)), NumText>>),
               WithSpeed(BaseReport, NumText),
               WithTs(BaseReport, TsText),
               WithRadius(BaseReport, NumText)}}
    \cup {WithTs(WithLoc(BaseReport, <<NumText, Num(Fin(784483))>>), TsText),
          WithTs(WithLoc(BaseReport, <<Num(Fin(174376)), NumText>>), TsText),
          WithTs(WithLoc(BaseReport, <<Num(NaN), Num(Fin(784483))>>), TsText),
          WithTs(WithLoc(BaseReport, <<Num(Inf), Num(Fin(784483))>>), TsText),
          WithTs(WithSpeed(BaseReport, NumText), TsText),
          WithTs(WithRadius(BaseReport, NumText), TsText),
          WithTs(WithRadius(BaseReport, NumText), TsNum(Epoch(0, 10), 0))}
    \cup {WithRadius(WithLoc(BaseReport, l), x) :
            l \in {<<Num(Fin(174375)), Num(Fin(784483))>>,
                   <<Num(Fin(174323)), Num(Fin(784450))>>},
            x \in {Num(Fin(0)), Num(Fin(1000)), Num(Fin(674)), Num(Fin(673))}}

\* a report on the Ameerpet/Punjagutta tie with an explicit timestamp and a
\* radius that reaches both stops
TieReport ==
    WithRadius(WithTs(WithLoc(BaseReport, <<Num(Fin(174323)), Num(Fin(784450))>>),
                      TsNum(Epoch(0, 10), 0)),
               Num(Fin(1000)))

Reports == OneOff \cup TwoOff \cup {TieReport}

\* the report of the calls that run beside the first one or after it: it has
\* the key of WithTs(BaseReport, 10 s) and is itself one of Reports
RivalReports == {TieReport}

Seeds == 0..MaxSeed

\* the clock at the start: 2025-01-01T00:10:00Z
NowStart == Epoch(20089, 600)

\* offsets from UTC, in minutes, of the zones the process may run in
LocalZones == {0, 330}

(***************************************************************************)
(* State.                                                                  *)
(***************************************************************************)
VARIABLES
    table,      \* the items of the DynamoDB table
    now,        \* the clock now_ts() reads
    ticks,      \* ticks of the clock so far
    tz,         \* offset from UTC of the local zone of the process, in minutes
    pc,         \* per call: "idle", "put", "alert", "done"
    via,        \* per call: "none", "api", "simulate", "generate"
    data,       \* per call: the JSON body
    item,       \* per call: the item handed to table.put_item
    next_stop,  \* per call: api_track's next_stop
    dist_km,    \* per call: api_track's dist_km
    put_calls,  \* per call: number of table.put_item calls made
    put_ok,     \* per call: number of table.put_item calls that returned
    published,  \* per call: the messages handed to sns_publish, in order
    resp,       \* per call: the response, once pc = "done"
    entered_at  \* per call: the clock api_track read for a missing timestamp

vars == <<catalog, table, now, ticks, tz, pc, via, data, item, next_stop, dist_km,
          put_calls, put_ok, published, resp, entered_at>>

Init ==
    /\ catalog = buses
    /\ table = {}
    /\ now = NowStart
    /\ ticks = 0
    /\ tz \in LocalZones
    /\ pc = [c \in Calls |-> "idle"]
    /\ via = [c \in Calls |-> "none"]
    /\ data = [c \in Calls |-> BaseReport]
    /\ item = [c \in Calls |-> NoItem]
    /\ next_stop = [c \in Calls |-> ""]
    /\ dist_km = [c \in Calls |-> NaN]
    /\ put_calls = [c \in Calls |-> 0]
    /\ put_ok = [c \in Calls |-> 0]
    /\ published = [c \in Calls |-> <<>>]
    /\ resp = [c \in Calls |-> NoResp]
    /\ entered_at = [c \in Calls |-> NowStart]

\* the bodies call c may be given: any report for the first call, a rival
\* report for the calls that run beside it or after it
Bodies(c) == IF c = 1 THEN Reports ELSE RivalReports

\* call c may read the clock: generate_test_data and simulate do (only the
\* first call runs them), api_track does when the timestamp is missing
ReadsClock(c) ==
    c = 1 \/ \E d \in Bodies(c) : d.timestamp.t \in {"absent", "null", "empty"}

\* the clock advances by one second, as long as a call that reads it may
\* still enter
Tick ==
    /\ ticks < MaxTicks
    /\ \E c \in Calls : pc[c] = "idle" /\ ReadsClock(c)
    /\ ticks' = ticks + 1
    /\ now' = EpochPlus(now, 1)
    /\ UNCHANGED <<catalog, table, tz, pc, via, data, item, next_stop, dist_km,
                   put_calls, put_ok, published, resp, entered_at>>

\* api_track entered with body d: src/app.py:133-143 and 76-86.  The calls are
\* numbered in the order they enter.
Enter(c, d, how, seed) ==
    LET p == api_track_prepare(d, now, tz, seed)
    IN  /\ pc[c] = "idle"
        /\ IF c = 1 THEN TRUE ELSE pc[c - 1] # "idle"
        /\ via' = [via EXCEPT ![c] = how]
        /\ data' = [data EXCEPT ![c] = d]
        /\ item' = [item EXCEPT ![c] = p.item]
        /\ next_stop' = [next_stop EXCEPT ![c] = p.next_stop]
        /\ dist_km' = [dist_km EXCEPT ![c] = p.dist_km]
        /\ resp' = [resp EXCEPT ![c] = p.resp]
        /\ pc' = [pc EXCEPT ![c] = IF p.failed THEN "done" ELSE "put"]
        /\ entered_at' = [entered_at EXCEPT ![c] =
                            IF d.timestamp.t = "absent" THEN now ELSE @]
        /\ UNCHANGED <<catalog, table, now, ticks, tz, put_calls, put_ok, published>>

\* POST /api/v1/track
Track_begin(c) ==
    \E d \in Bodies(c) :
        \E seed \in IF d.speed_kmph.t = "absent" THEN Seeds ELSE {0} :
            Enter(c, d, "api", seed)

\* table.put_item returns: the item is in the table
Track_put_ok(c) ==
    /\ pc[c] = "put"
    /\ serialisable(item[c])
    /\ table' = put_item(table, item[c])
    /\ put_calls' = [put_calls EXCEPT ![c] = @ + 1]
    /\ put_ok' = [put_ok EXCEPT ![c] = @ + 1]
    /\ pc' = [pc EXCEPT ![c] = "alert"]
    /\ UNCHANGED <<catalog, now, ticks, tz, via, data, item, next_stop, dist_km, published, resp,
                   entered_at>>

\* faulty variant: a failed write is followed by the alert step
Track_put_fail_continue(c) ==
    /\ pc[c] = "put"
    /\ put_calls' = [put_calls EXCEPT ![c] = @ + 1]
    /\ pc' = [pc EXCEPT ![c] = "alert"]
    /\ UNCHANGED <<catalog, table, now, ticks, tz, via, data, item, next_stop, dist_km,
                   put_ok, published, resp, entered_at>>

\* table.put_item raises (ClientError, or TypeError for a number it cannot
\* serialise): except Exception answers 500 (src/app.py:150-152)
Track_put_fail(c) ==
    /\ pc[c] = "put"
    /\ put_calls' = [put_calls EXCEPT ![c] = @ + 1]
    /\ resp' = [resp EXCEPT ![c] = Resp(FALSE, 500, "put_item", NoItem)]
    /\ pc' = [pc EXCEPT ![c] = "done"]
    /\ UNCHANGED <<catalog, table, now, ticks, tz, via, data, item, next_stop, dist_km,
                   put_ok, published, entered_at>>

\* src/app.py:145-149 when nothing is published: the radius is malformed, the
\* stop is farther than the radius, or format_ts raises
Track_no_alert(c) ==
    LET r == alert_radius_of(data[c])
        near == ~r.raised /\ within_radius(dist_km[c], r.x)
    IN  /\ pc[c] = "alert"
        /\ r.raised \/ ~near \/ format_ts(item[c].TimeStamp).raised
        /\ resp' = [resp EXCEPT ![c] =
                      IF r.raised THEN Resp(FALSE, 500, "alert_radius_km", NoItem)
                      ELSE IF near THEN Resp(FALSE, 500, "format_ts", NoItem)
                      ELSE Resp(TRUE, 200, "", item[c])]
        /\ pc' = [pc EXCEPT ![c] = "done"]
        /\ UNCHANGED <<catalog, table, now, ticks, tz, via, data, item, next_stop, dist_km,
                       put_calls, put_ok, published, entered_at>>

\* src/app.py:146-149: sns_publish is called; ok tells whether it returns or
\* raises, and a raise is answered 500 by except Exception
Track_alert(c) ==
    LET r == alert_radius_of(data[c])
        t == format_ts(item[c].TimeStamp)
    IN  /\ pc[c] = "alert"
        /\ ~r.raised
        /\ within_radius(dist_km[c], r.x)
        /\ ~t.raised
        /\ published' = [published EXCEPT ![c] =
                           Append(@, Message(item[c].BusID, next_stop[c], dist_km[c], t.text))]
        /\ \E ok \in BOOLEAN :
              resp' = [resp EXCEPT ![c] =
                         IF ok THEN Resp(TRUE, 200, "", item[c])
                         ELSE Resp(FALSE, 500, "sns_publish", NoItem)]
        /\ pc' = [pc EXCEPT ![c] = "done"]
        /\ UNCHANGED <<catalog, table, now, ticks, tz, via, data, item, next_stop, dist_km,
                       put_calls, put_ok, entered_at>>

(***************************************************************************)
(* simulate (src/app.py:265-276).                                          *)
(***************************************************************************)
\* the <bus_id> of the URL
SimIds == { <<"1", "0", "a">>, <<"6", "5", "G">>, <<"9", "9", "z">> }

simulate_payload(bus_id, seed) ==
    LET stop == choice(seed, 0, catalog[bus_id].stops)
    IN  Report(Str(bus_id),
               Num(Fin(stop.lat + uniform(seed, 1, -50, 50))),
               Num(Fin(stop.lon + uniform(seed, 2, -50, 50))),
               Num(Fin(uniform(seed, 3, 10, 35))),
               Str(ACTIVE), TsAbsent, Num(Fin(500)))

\* GET /admin/simulate/<bus_id> for a known bus: api_track runs on the payload
Simulate(c) ==
    \E raw \in SimIds, seed \in Seeds :
        /\ c = 1
        /\ strip(upper(raw)) \in DOMAIN catalog
        /\ Enter(c, simulate_payload(strip(upper(raw)), seed), "simulate", seed)

\* GET /admin/simulate/<bus_id> for an unknown bus: flash and redirect
Simulate_unknown(c) ==
    \E raw \in SimIds :
        /\ c = 1
        /\ strip(upper(raw)) \notin DOMAIN catalog
        /\ pc[c] = "idle"
        /\ pc' = [pc EXCEPT ![c] = "done"]
        /\ via' = [via EXCEPT ![c] = "redirect"]
        /\ UNCHANGED <<catalog, table, now, ticks, tz, data, item, next_stop, dist_km,
                       put_calls, put_ok, published, resp, entered_at>>

(***************************************************************************)
(* generate_test_data (src/app.py:279-293).                                *)
(***************************************************************************)
\* buses.keys(), in insertion order
BusOrder == <<Id10A, Id100M, Id65G>>

\* range(5)
GenPerBus == 5

GenTotal == Len(BusOrder) * GenPerBus

\* the item of the k-th iteration, k = 0 .. GenTotal - 1, as handed to
\* safe_put_item
gen_raw(seed, t, k) ==
    LET bus_id == BusOrder[k \div GenPerBus + 1]
        i == k % GenPerBus
        stop == choice(seed, 5 * k, catalog[bus_id].stops)
    IN  Item(bus_id, TsNum(EpochPlus(t, 0 - i * 300), 0),
             Fin(stop.lat + uniform(seed, 5 * k + 1, -100, 100)),
             Fin(stop.lon + uniform(seed, 5 * k + 2, -100, 100)),
             Fin(uniform(seed, 5 * k + 3, 15, 45)),
             ACTIVE, catalog[bus_id].route, stop.name,
             Fin(uniform(seed, 5 * k + 4, 100, 2000)))

\* the table after the iterations k .. n - 1
RECURSIVE gen_puts(_, _, _, _, _, _)
gen_puts(tab, seed, t, z, k, n) ==
    IF k >= n THEN tab
    ELSE gen_puts(put_item(tab, safe_put_item(gen_raw(seed, t, k), t, z).item),
                  seed, t, z, k + 1, n)

\* GET /admin/generate-test-data: n writes succeed; when n < GenTotal the next
\* one raises and the handler ends there
Generate(c) ==
    \E seed \in Seeds, n \in 0..GenTotal :
        /\ c = 1
        /\ pc[c] = "idle"
        /\ table' = gen_puts(table, seed, now, tz, 0, n)
        /\ put_calls' = [put_calls EXCEPT ![c] = IF n < GenTotal THEN n + 1 ELSE n]
        /\ put_ok' = [put_ok EXCEPT ![c] = n]
        /\ via' = [via EXCEPT ![c] = "generate"]
        /\ pc' = [pc EXCEPT ![c] = "done"]
        /\ UNCHANGED <<catalog, now, ticks, tz, data, item, next_stop, dist_km, published, resp,
                       entered_at>>

(***************************************************************************)
(* The system.                                                             *)
(***************************************************************************)
Next ==
    \/ Tick
    \/ \E c \in Calls : Track_begin(c)
    \/ \E c \in Calls : Track_put_ok(c)
    \/ \E c \in Calls : Track_put_fail(c)
    \/ \E c \in Calls : Track_no_alert(c)
    \/ \E c \in Calls : Track_alert(c)
    \/ \E c \in Calls : Simulate(c)
    \/ \E c \in Calls : Simulate_unknown(c)
    \/ \E c \in Calls : Generate(c)

Spec == Init /\ [][Next]_vars

(***************************************************************************)
(* Vocabulary of the properties.                                           *)
(***************************************************************************)
\* api_track has been entered by call c, with body data[c]
Entered(c) == via[c] \in {"api", "simulate"}

Returned(c) == Entered(c) /\ pc[c] = "done"

\* the bus_id of the body, trimmed and upper-cased, is no key of the catalog
UnknownVehicle(c) == bus_id_of(data[c]) \notin DOMAIN buses

\* lat, lon and speed_kmph of the body convert to floats
NumbersParse(d) ==
    /\ d.lat.t = "num"
    /\ d.lon.t = "num"
    /\ d.speed_kmph.t \in {"absent", "num"}

StopNames(bus_id) == {buses[bus_id].stops[i].name : i \in 1..Len(buses[bus_id].stops)}

C2_SuccessWritesOnce ==
    \A c \in Calls :
        Returned(c) /\ resp[c].ok =>
            /\ put_calls[c] = 1
            /\ put_ok[c] = 1
            /\ resp[c].stored = item[c]
            /\ item[c].DistanceToStopKm.cls = "fin"
            /\ item[c].DistanceToStopKm.v >= 0
            /\ ~UnknownVehicle(c)
            /\ item[c].NextStop \in StopNames(bus_id_of(data[c]))

\* a call away from every stop has returned success
C2_Witness ==
    \E c \in Calls :
        /\ Returned(c)
        /\ resp[c].ok
        /\ put_calls[c] = 1
        /\ item[c].DistanceToStopKm.v > 0
        /\ item[c] \in table

(***************************************************************************)
(* C3                                                                      *)
(***************************************************************************)
\* C3 as stated: every call that has persisted its item and has returned has
\* called sns_publish exactly once when dist_km <= alert_radius_km (0.5 km
\* when absent), not at all when dist_km > alert_radius_km, and never more
\* than once.
C3_AsStated ==
    \A c \in Calls :
        Returned(c) /\ put_ok[c] = 1 =>
            /\ Len(published[c]) <= 1
            /\ LET r == alert_radius_of(data[c])
               IN  ~r.raised =>
                      /\ FLe(dist_km[c], r.x) => Len(published[c]) = 1
                      /\ FLt(r.x, dist_km[c]) => Len(published[c]) = 0

(***************************************************************************)
(* C4                                                                      *)
(***************************************************************************)
\* C4 as stated: a call whose table.put_item has returned and that has called
\* sns_publish returns success with the stored item, whether sns_publish
\* returned or raised, and its item stays in the table.
C4_AsStated ==
    \A c \in Calls :
        Returned(c) /\ put_ok[c] = 1 /\ Len(published[c]) = 1 =>
            /\ resp[c].ok
            /\ resp[c].stored = item[c]

(***************************************************************************)
(* C5                                                                      *)
(***************************************************************************)
\* the distance from the location of body d to the i-th stop of bus_id
StopDist(d, bus_id, i) ==
    haversine_km(float(d.lat).x, float(d.lon).x,
                 buses[bus_id].stops[i].lat, buses[bus_id].stops[i].lon).d

\* C5: the stop a call has resolved is a stop of the bus to which no stop of
\* that bus is strictly closer, and every stop earlier in route order is
\* strictly farther; dist_km is the distance to it.
C5_NearestFirst ==
    \A c \in Calls :
        Entered(c) /\ next_stop[c] # "" =>
            LET b == bus_id_of(data[c])
                n == Len(buses[b].stops)
            IN  \E i \in 1..n :
                    /\ buses[b].stops[i].name = next_stop[c]
                    /\ dist_km[c] = StopDist(data[c], b, i)
                    /\ \A j \in 1..n : ~FLt(StopDist(data[c], b, j), StopDist(data[c], b, i))
                    /\ \A j \in 1..(i - 1) :
                          FLt(StopDist(data[c], b, i), StopDist(data[c], b, j))

\* a call at a location equidistant from Ameerpet and Punjagutta has resolved
\* Ameerpet, the earlier of the two
C5_Witness ==
    \E c \in Calls :
        /\ Entered(c)
        /\ next_stop[c] = "Ameerpet"
        /\ StopDist(data[c], Id10A, 3) = StopDist(data[c], Id10A, 4)
        /\ dist_km[c].v > 0

(***************************************************************************)
(* C6                                                                      *)
(***************************************************************************)
SameKey(r1, r2) == r1.BusID = r2.BusID /\ r1.TimeStamp = r2.TimeStamp

RecordsOf(tab, bus_id) == {r \in tab : r.BusID = bus_id}

\* the table holds at most one item per (BusID, TimeStamp)
C6_KeyUnique == \A r1, r2 \in table : SameKey(r1, r2) => r1 = r2

\* a write of api_track whose key is already in the table replaces that item:
\* the table and the items of the bus keep their number, the new item is in
\* the table
C6_Overwrite ==
    \A c \in Calls :
        /\ pc[c] = "put"
        /\ pc'[c] = "alert"
        /\ \E r \in table : SameKey(r, item[c])
        => /\ Cardinality(table') = Cardinality(table)
           /\ Cardinality(RecordsOf(table', item[c].BusID))
                 = Cardinality(RecordsOf(table, item[c].BusID))
           /\ item[c] \in table'
           /\ \A r \in table : SameKey(r, item[c]) /\ r # item[c] => r \notin table'

\* two calls for the same bus with the same explicit timestamp that have both
\* written share one key, and the table holds one item with it
C6_Reingest ==
    \A c, d \in Calls :
        /\ Entered(c) /\ Entered(d)
        /\ put_ok[c] = 1 /\ put_ok[d] = 1
        /\ bus_id_of(data[c]) = bus_id_of(data[d])
        /\ data[c].timestamp = data[d].timestamp
        /\ data[c].timestamp.t \in {"num", "iso"}
        => /\ SameKey(item[c], item[d])
           /\ Cardinality({r \in table : SameKey(r, item[c])}) = 1

\* C6: in every state the table holds at most one item per composite key;
\* the same report with the same explicit timestamp, ingested twice, leaves
\* one item under its key; and every write to a key already present
\* overwrites without growing the table or the items of the bus.
C6_Upsert == [](C6_KeyUnique /\ C6_Reingest) /\ [][C6_Overwrite]_vars

\* two calls with the same body and an explicit timestamp have both written,
\* and the table holds one item with their key
C6_Witness ==
    \E c, d \in Calls :
        /\ c # d
        /\ Entered(c) /\ Entered(d)
        /\ data[c] = data[d]
        /\ data[c].timestamp.t = "num"
        /\ put_ok[c] = 1 /\ put_ok[d] = 1
        /\ Cardinality({r \in table : SameKey(r, item[c])}) = 1

(***************************************************************************)
(* C7                                                                      *)
(***************************************************************************)
\* C7 as stated: every item of the table has a TimeStamp >= 0, a BusID that
\* is upper-case and not empty, and a finite DistanceToStopKm >= 0.
C7_AsStated ==
    \A r \in table :
        /\ r.TimeStamp.day >= 0
        /\ r.BusID # <<>>
        /\ \A i \in 1..Len(r.BusID) :
              r.BusID[i] \notin {"a", "g", "m", "z", "o", "n", "e", "i", "d", "l"}
        /\ r.DistanceToStopKm.cls = "fin"
        /\ r.DistanceToStopKm.v >= 0

(***************************************************************************)
(* C8                                                                      *)
(***************************************************************************)
\* the body reaches the timestamp conversion of safe_put_item
ReachesConversion(d) ==
    /\ NumbersParse(d)
    /\ d.lat.x.cls # "inf"
    /\ d.lon.x.cls # "inf"
    /\ d.speed_kmph.x.cls = "fin"
    /\ bus_id_of(d) \in DOMAIN buses

\* the UTC reading of an ISO string: its date and time of day, less its offset
\* when it carries one
UtcReading(iso) ==
    EpochNorm(days_from_civil(iso.y, iso.mo, iso.d),
              iso.h * 3600 + iso.mi * 60 + iso.s
                - (IF iso.zone = "+05:30" THEN 330 * 60 ELSE 0))

TowardsZero(e, hasFraction) ==
    IF e.day < 0 /\ hasFraction THEN EpochPlus(e, 1) ELSE e

Unparseable(ts) ==
    \/ ts.t = "text"
    \/ ts.t = "iso" /\ ~iso_valid(ts.iso)
    \/ ts.t = "num" /\ ts.cls # "fin"

\* C8 as stated: the TimeStamp of the item is the clock at entry when the
\* field is absent, the epoch seconds of the UTC reading of a valid ISO string
\* (1735689600 for "2025-01-01T00:00:00Z"), the number truncated to an integer
\* for a number; an unparseable timestamp fails the call before any write.
C8_AsStated ==
    \A c \in Calls :
        Entered(c) /\ ReachesConversion(data[c]) =>
            LET ts == data[c].timestamp
            IN  /\ ts.t = "absent" => item[c].TimeStamp = entered_at[c]
                /\ ts.t = "iso" /\ iso_valid(ts.iso) =>
                      item[c].TimeStamp = TowardsZero(UtcReading(ts.iso), ts.iso.f > 0)
                /\ ts = TsIso(Iso2025("Z")) =>
                      item[c].TimeStamp.day * 86400 + item[c].TimeStamp.sec = 1735689600
                /\ ts.t = "num" /\ ts.cls = "fin" =>
                      item[c].TimeStamp = TowardsZero(ts.n, ts.frac > 0)
                /\ Unparseable(ts) =>
                      /\ pc[c] = "done"
                      /\ ~resp[c].ok
                      /\ resp[c].error = "timestamp"
                      /\ put_calls[c] = 0

(***************************************************************************)
(* C9                                                                      *)
(***************************************************************************)
CasePairs == { <<"a", "A">>, <<"g", "G">>, <<"m", "M">>, <<"z", "Z">> }

\* s is key k with some letters in lower case
CaseVariant(s, k) ==
    /\ Len(s) = Len(k)
    /\ s # k
    /\ \A i \in 1..Len(k) : s[i] = k[i] \/ <<s[i], k[i]>> \in CasePairs

\* C9: a call whose bus_id is a catalog key k up to letter case is handled as
\* bus k: it never fails as an unknown vehicle, it resolves a stop of k, its
\* item carries BusID k, and when the other fields are valid it fails only if
\* the table or the topic fails; the report of the scenario ("10a" at
\* 17.4376, 78.4483) resolves Ameerpet at 11 m and publishes once on success.
C9_CaseInsensitive ==
    \A c \in Calls : \A k \in DOMAIN buses :
        Entered(c) /\ data[c].bus_id.t = "str" /\ CaseVariant(data[c].bus_id.s, k) =>
            /\ resp[c].error # "Unknown bus_id"
            /\ next_stop[c] # "" =>
                  /\ item[c].BusID = k
                  /\ item[c].Route = buses[k].route
                  /\ next_stop[c] \in StopNames(k)
            /\ resp[c].ok => resp[c].stored.BusID = k /\ put_ok[c] = 1
            /\ data[c] = BaseReport =>
                  /\ next_stop[c] = "Ameerpet"
                  /\ dist_km[c] = Fin(11)
                  /\ pc[c] = "done" =>
                        /\ resp[c].ok \/ resp[c].error \in {"put_item", "sns_publish"}
                        /\ resp[c].ok => Len(published[c]) = 1 /\ item[c] \in table

\* the report of the scenario has been ingested with success
C9_Witness ==
    \E c \in Calls :
        /\ Returned(c)
        /\ data[c] = BaseReport
        /\ resp[c].ok
        /\ resp[c].stored.BusID = Id10A
        /\ Len(published[c]) = 1

(***************************************************************************)
(* C10                                                                     *)
(***************************************************************************)
\* C10: a call of api_track has called sns_publish only if its table.put_item
\* has returned; it calls table.put_item at most once; when that call raised,
\* the call returns a failure and has published nothing.
C10_PutBeforePublish ==
    \A c \in Calls :
        Entered(c) =>
            /\ put_calls[c] <= 1
            /\ Len(published[c]) > 0 => put_ok[c] = 1
            /\ pc[c] = "alert" => put_ok[c] = 1
            /\ put_calls[c] = 1 /\ put_ok[c] = 0 =>
                  /\ pc[c] = "done"
                  /\ ~resp[c].ok
                  /\ resp[c].error = "put_item"
                  /\ published[c] = <<>>

\* a call within the radius of its stop has seen table.put_item raise
C10_Witness ==
    \E c \in Calls :
        /\ Returned(c)
        /\ put_calls[c] = 1
        /\ put_ok[c] = 0
        /\ ~alert_radius_of(data[c]).raised
        /\ FLe(dist_km[c], alert_radius_of(data[c]).x)

(***************************************************************************)
(* C11                                                                     *)
(***************************************************************************)
\* the errors api_track answers because a field of the body is malformed
MalformedErrors ==
    {"Unknown bus_id", "lat", "lon", "speed_kmph", "timestamp", "alert_radius_km"}

\* C11 as stated: every call of api_track that has returned {ok: false}
\* because a field of the body (bus_id, lat, lon, speed_kmph, timestamp or
\* alert_radius_km) is malformed has written no item to the table.
C11_AsStated ==
    \A c \in Calls :
        Returned(c) /\ ~resp[c].ok /\ resp[c].error \in MalformedErrors =>
            /\ put_ok[c] = 0
            /\ item[c] \notin table

(***************************************************************************)
(* C12                                                                     *)
(***************************************************************************)
\* lat or lon of the body is missing or does not convert to a float
MalformedCoordinate(d) == d.lat.t # "num" \/ d.lon.t # "num"

InvalidFirst(d) ==
    IF d.lat.t # "num" THEN "lat"
    ELSE IF d.lon.t # "num" THEN "lon"
    ELSE IF d.speed_kmph.t \notin {"absent", "num"} THEN "speed_kmph"
    ELSE IF bus_id_of(d) \notin DOMAIN buses THEN "Unknown bus_id"
    ELSE IF d.lat.x.cls = "inf" \/ d.lon.x.cls = "inf" THEN "haversine_km"
    ELSE IF Unparseable(d.timestamp) THEN "timestamp"
    ELSE ""

Clocks == {EpochPlus(NowStart, k) : k \in 0..MaxTicks}

\* what call c of api_track holds and has answered is what api_track computes
\* from the body of c alone, for some reading t of the clock and some draw
\* seed of random.uniform
OwnResult(c, t, seed) ==
    LET p == api_track_prepare(data[c], t, tz, seed)
        m == Message(p.item.BusID, p.next_stop, p.dist_km, format_ts(p.item.TimeStamp).text)
    IN  IF p.failed
        THEN /\ pc[c] = "done"
             /\ resp[c] = p.resp
             /\ published[c] = <<>>
             /\ put_calls[c] = 0
        ELSE /\ item[c] = p.item
             /\ next_stop[c] = p.next_stop
             /\ dist_km[c] = p.dist_km
             /\ published[c] \in {<<>>, <<m>>}
             /\ pc[c] = "done" =>
                   \/ resp[c] = Resp(TRUE, 200, "", p.item)
                   \/ ~resp[c].ok /\ resp[c].code = 500 /\ resp[c].stored = NoItem

\* record r is a complete item that call c has written
WroteRecord(c, r) ==
    \/ Entered(c) /\ put_ok[c] = 1 /\ r = item[c]
    \/ /\ via[c] = "generate"
       /\ \E t \in Clocks, seed \in Seeds, k \in 0..(GenTotal - 1) :
             k < put_ok[c] /\ r = safe_put_item(gen_raw(seed, t, k), t, tz).item

\* C13: under every interleaving of the calls, for the same bus or for
\* distinct buses, the catalog is the one configured at start; what each call
\* of api_track answers and publishes is computed from its own body alone;
\* and every item of the table is the complete item one single call wrote
\* (for a key several calls wrote, the item of one of them), never attributes
\* of two calls mixed.
C13_NoInterference ==
    /\ catalog = buses
    /\ \A c \in Calls :
          Entered(c) =>
              \E t \in IF data[c].timestamp.t \in {"null", "empty"}
                        THEN Clocks ELSE {entered_at[c]},
                 seed \in IF data[c].speed_kmph.t = "absent" THEN Seeds ELSE {0} :
                  OwnResult(c, t, seed)
    /\ \A r \in table : \E c \in Calls : WroteRecord(c, r)

\* two calls for the same bus and timestamp with different positions have
\* both returned success, the second having written while the first was
\* between its entry and its own write: the table holds the first one's item
C13_Witness ==
    /\ Returned(1) /\ Returned(2)
    /\ resp[1].ok /\ resp[2].ok
    /\ SameKey(item[1], item[2])
    /\ item[1].Latitude # item[2].Latitude
    /\ item[1].DistanceToStopKm # item[2].DistanceToStopKm
    /\ item[1] \in table
    /\ item[2] \notin table

====
